---- MODULE Spec2Model ----
(***************************************************************************)
(* IMU pre-integration (initial_sfm::IntegrationBase,                      *)
(* msckf_vio/include/initial_sfm/integration_base.h).                      *)
(*                                                                         *)
(* Arithmetic.  The class computes in doubles; the model computes the same *)
(* expressions exactly, in integers.  Units are chosen so that every value *)
(* that occurs is an integer: sample periods are even numbers of time      *)
(* units (0.5*dt, 0.25*dt*dt and 0.125*dt*dt*dt are integers),             *)
(* accelerations and accelerometer biases have even components (the        *)
(* mid-point mean is an integer) and the mean bias-corrected angular rate  *)
(* of a step turns the frame by nothing or by a quarter turn about one     *)
(* coordinate axis (rotation matrices are integer matrices).  A quaternion *)
(* is kept as an integer 4-vector c with a positive integer n and stands   *)
(* for c / sqrt(n), so that normalisation needs no square root.  InDomain  *)
(* names the samples for which all divisions below are exact.              *)
(***************************************************************************)
EXTENDS Integers, Sequences, FiniteSets, TLC

\* ------------------------------------------------------------------ bounds
MaxBuf == 2
MaxDirect == 1

\* ------------------------------------------------------- 3-vectors, matrices
\* a function on 1..n as the tuple of its values
Tuple(f) == f \o <<>>

Abs(x) == IF x < 0 THEN -x ELSE x

RECURSIVE GCD(_, _)
GCD(a, b) == IF b = 0 THEN a ELSE GCD(b, a % b)

Zero3 == <<0, 0, 0>>

VAdd(a, b) == <<a[1] + b[1], a[2] + b[2], a[3] + b[3]>>

VSub(a, b) == <<a[1] - b[1], a[2] - b[2], a[3] - b[3]>>

VScale(k, a) == <<k * a[1], k * a[2], k * a[3]>>

VDiv(a, k) == <<a[1] \div k, a[2] \div k, a[3] \div k>>

Cross(a, b) == <<a[2] * b[3] - a[3] * b[2],
                 a[3] * b[1] - a[1] * b[3],
                 a[1] * b[2] - a[2] * b[1]>>

RECURSIVE DotTo(_, _, _)
DotTo(r, c, k) == IF k = 0 THEN 0 ELSE r[k] * c[k] + DotTo(r, c, k - 1)

\* the indices of the non-zero entries of a row, and the dot product summed over them
NonZero(r) == SelectSeq(Tuple([k \in 1..Len(r) |-> k]), LAMBDA k : r[k] # 0)

RECURSIVE DotAt(_, _, _, _)
DotAt(ix, r, c, m) == IF m = 0 THEN 0 ELSE r[ix[m]] * c[ix[m]] + DotAt(ix, r, c, m - 1)

Transpose(A) == Tuple([j \in 1..Len(A[1]) |-> Tuple([i \in 1..Len(A) |-> A[i][j]])])

\* A * Bt^T, each dot product summed over the non-zero entries of the sparser row
SparseMulT(A, Bt, na, nb) ==
    Tuple([i \in 1..Len(A) |-> Tuple([j \in 1..Len(Bt) |->
        IF Len(na[i]) <= Len(nb[j]) THEN DotAt(na[i], A[i], Bt[j], Len(na[i]))
        ELSE DotAt(nb[j], A[i], Bt[j], Len(nb[j]))])])

MatMulT(A, Bt) ==
    SparseMulT(A, Bt, Tuple([i \in 1..Len(A) |-> NonZero(A[i])]), Tuple([j \in 1..Len(Bt) |-> NonZero(Bt[j])]))

MatMul(A, B) == MatMulT(A, Transpose(B))

MatAdd(A, B) == Tuple([i \in 1..Len(A) |-> Tuple([j \in 1..Len(A[i]) |-> A[i][j] + B[i][j]])])

MatScale(k, A) == Tuple([i \in 1..Len(A) |-> Tuple([j \in 1..Len(A[i]) |-> k * A[i][j]])])

MatVec(A, v) == Tuple([i \in 1..Len(A) |-> DotTo(A[i], v, Len(v))])

Identity(n) == Tuple([i \in 1..n |-> Tuple([j \in 1..n |-> IF i = j THEN 1 ELSE 0])])

Zeros(n, m) == Tuple([i \in 1..n |-> Tuple([j \in 1..m |-> 0])])

I3 == Identity(3)

Z3 == Zeros(3, 3)

\* A matrix of 3x3 blocks, blk[r][c] being the block at rows 3(r-1)+1.., columns 3(c-1)+1..
Assemble(blk) ==
    Tuple([i \in 1..(3 * Len(blk)) |-> Tuple([j \in 1..(3 * Len(blk[1])) |->
        blk[((i - 1) \div 3) + 1][((j - 1) \div 3) + 1][((i - 1) % 3) + 1][((j - 1) % 3) + 1]])])

\* M.block<3,3>(r, c), r and c being the offsets of enum StateOrder
Block(M, r, c) == Tuple([i \in 1..3 |-> Tuple([j \in 1..3 |-> M[r + i][c + j]])])

\* ---------------------------------------------------------------- StateOrder
O_P == 0
O_R == 3
O_V == 6
O_BA == 9
O_BG == 12

\* --------------------------------------------------------------- quaternions
\* [c |-> <<w, x, y, z>>, n |-> n] stands for the quaternion <<w, x, y, z>> / sqrt(n).
SquaredNorm(c) == c[1] * c[1] + c[2] * c[2] + c[3] * c[3] + c[4] * c[4]

GCD4(c) == GCD(GCD(Abs(c[1]), Abs(c[2])), GCD(Abs(c[3]), Abs(c[4])))

\* the largest d that divides g with d*d dividing n (1 when g = 0)
LargestSquareFactor(g, n) ==
    IF g = 0 THEN 1
    ELSE CHOOSE d \in 1..g : /\ g % d = 0 /\ n % (d * d) = 0
                              /\ \A e \in (d + 1)..g : ~(g % e = 0 /\ n % (e * e) = 0)

ReduceBy(q, d) ==
    [c |-> <<q.c[1] \div d, q.c[2] \div d, q.c[3] \div d, q.c[4] \div d>>, n |-> q.n \div (d * d)]

\* The one representation of a value: the largest common factor d of c with d*d | n removed.
Canonical(q) == ReduceBy(q, LargestSquareFactor(GCD4(q.c), q.n))

Quaterniond(w, x, y, z) == Canonical([c |-> <<w, x, y, z>>, n |-> 1])

QuatIdentity == Quaterniond(1, 0, 0, 0)

\* Eigen's quaternion product (Hamilton), a * b
QuatMul(a, b) ==
    Canonical([c |-> <<a.c[1] * b.c[1] - a.c[2] * b.c[2] - a.c[3] * b.c[3] - a.c[4] * b.c[4],
                       a.c[1] * b.c[2] + a.c[2] * b.c[1] + a.c[3] * b.c[4] - a.c[4] * b.c[3],
                       a.c[1] * b.c[3] + a.c[3] * b.c[1] + a.c[4] * b.c[2] - a.c[2] * b.c[4],
                       a.c[1] * b.c[4] + a.c[4] * b.c[1] + a.c[2] * b.c[3] - a.c[3] * b.c[2]>>,
               n |-> a.n * b.n])

\* Eigen's normalize(): the coefficients divided by the norm, c / sqrt(|c|^2)
Normalize(q) == Canonical([c |-> q.c, n |-> SquaredNorm(q.c)])

\* Eigen's inverse(): conjugate / squaredNorm, the squared norm of c/sqrt(n) being |c|^2 / n
QuatInverse(q) ==
    Canonical([c |-> <<q.c[1] * q.n, -q.c[2] * q.n, -q.c[3] * q.n, -q.c[4] * q.n>>,
               n |-> q.n * SquaredNorm(q.c) * SquaredNorm(q.c)])

QuatVec(q) == <<q.c[2], q.c[3], q.c[4]>>

\* Eigen's toRotationMatrix(): the unit-quaternion formula, applied to q as it is
ToRotationMatrix(q) ==
    LET w == q.c[1]  x == q.c[2]  y == q.c[3]  z == q.c[4]  n == q.n
    IN  << <<1 - ((2 * y * y + 2 * z * z) \div n), (2 * y * x - 2 * z * w) \div n, (2 * z * x + 2 * y * w) \div n>>,
           <<(2 * y * x + 2 * z * w) \div n, 1 - ((2 * x * x + 2 * z * z) \div n), (2 * z * y - 2 * x * w) \div n>>,
           <<(2 * z * x - 2 * y * w) \div n, (2 * z * y + 2 * x * w) \div n, 1 - ((2 * x * x + 2 * y * y) \div n)>> >>

\* Eigen's quaternion * vector: uv = 2 vec x v;  v + w uv + vec x uv
RotateBy(q, v, uv) == VAdd(v, VDiv(VAdd(VScale(q.c[1], uv), Cross(QuatVec(q), uv)), q.n))

Rotate(q, v) == RotateBy(q, v, VScale(2, Cross(QuatVec(q), v)))

\* from a to [a]x
Skew(a) == << <<0, -a[3], a[2]>>, <<a[3], 0, -a[1]>>, <<-a[2], a[1], 0>> >>

\* ------------------------------------------------------------- configuration
\* static Vector3d G, in the model's length unit
G == <<0, 0, 2>>

\* The noise densities ACC_N, GYR_N, ACC_W, GYR_W are mutable statics read by the
\* constructor; the configurations an instance is built under.
NoiseConfigs == {[ACC_N |-> 2, GYR_N |-> 1, ACC_W |-> 1, GYR_W |-> 1]}

\* matrix Q(18x18) of the constructor
NoiseMatrix(cfg) ==
    LET an == MatScale(cfg.ACC_N * cfg.ACC_N, I3)
        gn == MatScale(cfg.GYR_N * cfg.GYR_N, I3)
        aw == MatScale(cfg.ACC_W * cfg.ACC_W, I3)
        gw == MatScale(cfg.GYR_W * cfg.GYR_W, I3)
    IN  Assemble(<< <<an, Z3, Z3, Z3, Z3, Z3>>,
                    <<Z3, gn, Z3, Z3, Z3, Z3>>,
                    <<Z3, Z3, an, Z3, Z3, Z3>>,
                    <<Z3, Z3, Z3, gn, Z3, Z3>>,
                    <<Z3, Z3, Z3, Z3, aw, Z3>>,
                    <<Z3, Z3, Z3, Z3, Z3, gw>> >>)

\* ------------------------------------------------------------------- inputs
\* the samples (dt, acc, gyr) fed to push_back and propagate
Samples == {<<2, G, Zero3>>,
            <<2, <<2, 0, 0>>, <<2, 0, 0>>>>,
            <<0, <<0, 0, 0>>, <<0, 0, 2>>>>,
            <<-2, <<2, 0, 0>>, Zero3>>}

\* the bias estimates (ba, bg) of the constructor and of repropagate
Biases == {<<Zero3, Zero3>>, <<<<0, 2, 0>>, <<0, 0, 1>>>>}

QuarterTurns == {<<0, 0, 0>>, <<1, 0, 0>>, <<-1, 0, 0>>, <<0, 1, 0>>, <<0, -1, 0>>, <<0, 0, 1>>, <<0, 0, -1>>}

\* The steps on which the model's integer arithmetic is exact
InDomain(_dt, _gyr_0, _gyr_1, bg) ==
    /\ _dt % 2 = 0
    /\ \A k \in 1..3 : (_gyr_0[k] + _gyr_1[k]) % 2 = 0
    /\ VScale(_dt \div 2, VSub(VDiv(VAdd(_gyr_0, _gyr_1), 2), bg)) \in QuarterTurns

\* ------------------------------------------------------------ the integrator
\* An instance is a record of its members; calls and atFirst are history: the
\* propagate calls an operation has made so far and the members at the first of them.
Members(o) ==
    [sum_dt |-> o.sum_dt, acc_0 |-> o.acc_0, gyr_0 |-> o.gyr_0,
     linearized_ba |-> o.linearized_ba, linearized_bg |-> o.linearized_bg,
     jacobian |-> o.jacobian, covariance |-> o.covariance,
     delta_p |-> o.delta_p, delta_q |-> o.delta_q, delta_v |-> o.delta_v]

\* midPointUpdate with F * covariance * F in place of F * covariance * F^T
midPointUpdateNoTranspose(o, update_jacobian, result_delta_p, result_delta_q, result_delta_v, result_linearized_ba, result_linearized_bg, F, V) ==
    [result_delta_p |-> result_delta_p,
     result_delta_q |-> result_delta_q,
     result_delta_v |-> result_delta_v,
     result_linearized_ba |-> result_linearized_ba,
     result_linearized_bg |-> result_linearized_bg,
     jacobian |-> IF update_jacobian THEN MatMul(F, o.jacobian) ELSE o.jacobian,
     covariance |-> IF update_jacobian
                    THEN MatAdd(MatMul(MatMul(F, o.covariance), F), MatMulT(MatMul(V, o.noise), V))
                    ELSE o.covariance,
     F |-> F, V |-> V]

\* midPointIntegration, the covariance and jacobian update (update_jacobian) and the results
midPointUpdate(o, update_jacobian, result_delta_p, result_delta_q, result_delta_v, result_linearized_ba, result_linearized_bg, F, V) ==
    [result_delta_p |-> result_delta_p,
     result_delta_q |-> result_delta_q,
     result_delta_v |-> result_delta_v,
     result_linearized_ba |-> result_linearized_ba,
     result_linearized_bg |-> result_linearized_bg,
     jacobian |-> IF update_jacobian THEN MatMul(F, o.jacobian) ELSE o.jacobian,
     covariance |-> IF update_jacobian
                    THEN MatAdd(MatMulT(MatMul(F, o.covariance), F), MatMulT(MatMul(V, o.noise), V))
                    ELSE o.covariance,
     F |-> F, V |-> V]

\* midPointIntegration, the matrices F (15x15) and V (15x18); q2 = 0.25*dt*dt, h = 0.5*dt
midPointMatrices(o, _dt, update_jacobian, result_delta_p, result_delta_q, result_delta_v, linearized_ba, linearized_bg, R0, R1, IWdt, R0A0, R1A1, R1A1W, q2, h) ==
    midPointUpdate(o, update_jacobian, result_delta_p, result_delta_q, result_delta_v,
        linearized_ba, linearized_bg,
        Assemble(<<
            <<I3, MatScale(-q2, MatAdd(R0A0, R1A1W)), MatScale(_dt, I3), MatScale(-q2, MatAdd(R0, R1)),
              MatScale(q2 * _dt, R1A1)>>,
            <<Z3, IWdt, Z3, Z3, MatScale(-_dt, I3)>>,
            <<Z3, MatScale(-h, MatAdd(R0A0, R1A1W)), I3, MatScale(-h, MatAdd(R0, R1)),
              MatScale(h * _dt, R1A1)>>,
            <<Z3, Z3, Z3, I3, Z3>>,
            <<Z3, Z3, Z3, Z3, I3>> >>),
        Assemble(<<
            <<MatScale(q2, R0), MatScale(-(q2 * h), R1A1), MatScale(q2, R1), MatScale(-(q2 * h), R1A1), Z3, Z3>>,
            <<Z3, MatScale(h, I3), Z3, MatScale(h, I3), Z3, Z3>>,
            <<MatScale(h, R0), MatScale(-q2, R1A1), MatScale(h, R1), MatScale(-q2, R1A1), Z3, Z3>>,
            <<Z3, Z3, Z3, Z3, MatScale(_dt, I3), Z3>>,
            <<Z3, Z3, Z3, Z3, Z3, MatScale(_dt, I3)>> >>))

\* midPointIntegration, the products of the rotation matrices with [a]x and I - [w]x dt
midPointProducts(o, _dt, update_jacobian, result_delta_p, result_delta_q, result_delta_v, linearized_ba, linearized_bg, R0, R1, IWdt, R_a_0_x, R1A1) ==
    midPointMatrices(o, _dt, update_jacobian, result_delta_p, result_delta_q, result_delta_v,
        linearized_ba, linearized_bg, R0, R1, IWdt,
        MatMul(R0, R_a_0_x), R1A1, MatMul(R1A1, IWdt), (_dt * _dt) \div 4, _dt \div 2)

\* midPointMean with beta(k+1) = beta(k) + a_hat, the factor dt forgotten
midPointMeanNoDt(o, _dt, update_jacobian, delta_p, delta_q, delta_v, linearized_ba, linearized_bg, a_0_x, a_1_x, w_x, result_delta_q, un_acc, R1) ==
    midPointProducts(o, _dt, update_jacobian,
        VAdd(VAdd(delta_p, VScale(_dt, delta_v)), VScale((_dt * _dt) \div 2, un_acc)),
        result_delta_q,
        VAdd(delta_v, un_acc),
        linearized_ba, linearized_bg,
        ToRotationMatrix(delta_q), R1, MatAdd(I3, MatScale(-_dt, Skew(w_x))),
        Skew(a_0_x), MatMul(R1, Skew(a_1_x)))

\* midPointIntegration from the mean acceleration un_acc on
midPointMean(o, _dt, update_jacobian, delta_p, delta_q, delta_v, linearized_ba, linearized_bg, a_0_x, a_1_x, w_x, result_delta_q, un_acc, R1) ==
    midPointProducts(o, _dt, update_jacobian,
        VAdd(VAdd(delta_p, VScale(_dt, delta_v)), VScale((_dt * _dt) \div 2, un_acc)),
        result_delta_q,
        VAdd(delta_v, VScale(_dt, un_acc)),
        linearized_ba, linearized_bg,
        ToRotationMatrix(delta_q), R1, MatAdd(I3, MatScale(-_dt, Skew(w_x))),
        Skew(a_0_x), MatMul(R1, Skew(a_1_x)))

\* midPointIntegration from result_delta_q on
midPointRotation(o, _dt, update_jacobian, delta_p, delta_q, delta_v, linearized_ba, linearized_bg, a_0_x, a_1_x, un_gyr, result_delta_q) ==
    midPointMean(o, _dt, update_jacobian, delta_p, delta_q, delta_v, linearized_ba, linearized_bg,
        a_0_x, a_1_x, un_gyr, result_delta_q,
        VDiv(VAdd(Rotate(delta_q, a_0_x), Rotate(result_delta_q, a_1_x)), 2),
        ToRotationMatrix(result_delta_q))

\* midPointGyr with the increment on the left: Quaterniond(1, ...) * delta_q
midPointGyrLeft(o, _dt, update_jacobian, delta_p, delta_q, delta_v, linearized_ba, linearized_bg, a_0_x, a_1_x, un_gyr) ==
    midPointRotation(o, _dt, update_jacobian, delta_p, delta_q, delta_v, linearized_ba, linearized_bg,
        a_0_x, a_1_x, un_gyr,
        QuatMul(Canonical([c |-> <<2, un_gyr[1] * _dt, un_gyr[2] * _dt, un_gyr[3] * _dt>>, n |-> 4]), delta_q))

\* midPointIntegration from un_gyr on;
\* Quaterniond(1, un_gyr(0) * _dt / 2, un_gyr(1) * _dt / 2, un_gyr(2) * _dt / 2) is (2, un_gyr * _dt) / sqrt(4)
midPointGyr(o, _dt, update_jacobian, delta_p, delta_q, delta_v, linearized_ba, linearized_bg, a_0_x, a_1_x, un_gyr) ==
    midPointRotation(o, _dt, update_jacobian, delta_p, delta_q, delta_v, linearized_ba, linearized_bg,
        a_0_x, a_1_x, un_gyr,
        QuatMul(delta_q, Canonical([c |-> <<2, un_gyr[1] * _dt, un_gyr[2] * _dt, un_gyr[3] * _dt>>, n |-> 4])))

\* midPointIntegration: the results, the members jacobian and covariance it assigns and
\* its locals F and V
midPointIntegration(o, _dt, _acc_0, _gyr_0, _acc_1, _gyr_1, delta_p, delta_q, delta_v, linearized_ba, linearized_bg, update_jacobian) ==
    midPointGyr(o, _dt, update_jacobian, delta_p, delta_q, delta_v, linearized_ba, linearized_bg,
        VSub(_acc_0, linearized_ba), VSub(_acc_1, linearized_ba),
        VSub(VDiv(VAdd(_gyr_0, _gyr_1), 2), linearized_bg))

\* propagateAssign with sum_dt = dt in place of sum_dt += dt
propagateAssignSet(o, r, _dt, _acc_1, _gyr_1, FW) ==
    [o EXCEPT !.dt = _dt, !.acc_1 = _acc_1, !.gyr_1 = _gyr_1,
              !.jacobian = r.jacobian, !.covariance = r.covariance,
              !.delta_p = r.result_delta_p,
              !.delta_q = Normalize(r.result_delta_q),
              !.delta_v = r.result_delta_v,
              !.linearized_ba = r.result_linearized_ba,
              !.linearized_bg = r.result_linearized_bg,
              !.sum_dt = _dt,
              !.acc_0 = _acc_1, !.gyr_0 = _gyr_1,
              !.calls = Append(o.calls, <<_dt, _acc_1, _gyr_1>>),
              !.atFirst = IF o.calls = <<>> THEN Members(o) ELSE o.atFirst,
              !.factor = Tuple([i \in 1..15 |-> FW[i] \o r.V[i]])]

\* propagate, the assignments after midPointIntegration has returned r
propagateAssign(o, r, _dt, _acc_1, _gyr_1, FW) ==
    [o EXCEPT !.dt = _dt, !.acc_1 = _acc_1, !.gyr_1 = _gyr_1,
              !.jacobian = r.jacobian, !.covariance = r.covariance,
              !.delta_p = r.result_delta_p,
              !.delta_q = Normalize(r.result_delta_q),
              !.delta_v = r.result_delta_v,
              !.linearized_ba = r.result_linearized_ba,
              !.linearized_bg = r.result_linearized_bg,
              !.sum_dt = o.sum_dt + _dt,
              !.acc_0 = _acc_1, !.gyr_0 = _gyr_1,
              !.calls = Append(o.calls, <<_dt, _acc_1, _gyr_1>>),
              !.atFirst = IF o.calls = <<>> THEN Members(o) ELSE o.atFirst,
              !.factor = Tuple([i \in 1..15 |-> FW[i] \o r.V[i]])]

propagateResult(o, r, _dt, _acc_1, _gyr_1) ==
    propagateAssign(o, r, _dt, _acc_1, _gyr_1, MatMul(r.F, o.factor))

\* propagate(_dt, _acc_1, _gyr_1)
propagate(o, _dt, _acc_1, _gyr_1) ==
    propagateResult(o,
        midPointIntegration(o, _dt, o.acc_0, o.gyr_0, _acc_1, _gyr_1, o.delta_p, o.delta_q, o.delta_v,
                            o.linearized_ba, o.linearized_bg, TRUE),
        _dt, _acc_1, _gyr_1)

\* push_back putting the sample at the front of the buffer
push_backFront(o, _dt, acc, gyr) ==
    propagate([o EXCEPT !.dt_buf = <<_dt>> \o o.dt_buf,
                        !.acc_buf = <<acc>> \o o.acc_buf,
                        !.gyr_buf = <<gyr>> \o o.gyr_buf],
              _dt, acc, gyr)

\* push_back(dt, acc, gyr)
push_back(o, _dt, acc, gyr) ==
    propagate([o EXCEPT !.dt_buf = Append(o.dt_buf, _dt),
                        !.acc_buf = Append(o.acc_buf, acc),
                        !.gyr_buf = Append(o.gyr_buf, gyr)],
              _dt, acc, gyr)

\* the for loop of repropagate from index i (1-based) on
RECURSIVE Replay(_, _)
Replay(o, i) ==
    IF i > Len(o.dt_buf) THEN o
    ELSE Replay(propagate(o, o.dt_buf[i], o.acc_buf[i], o.gyr_buf[i]), i + 1)

\* repropagate without acc_0 = linearized_acc
repropagateKeepAcc(o, _linearized_ba, _linearized_bg) ==
    Replay([o EXCEPT !.sum_dt = 0,
                     !.gyr_0 = o.linearized_gyr,
                     !.delta_p = Zero3,
                     !.delta_q = QuatIdentity,
                     !.delta_v = Zero3,
                     !.linearized_ba = _linearized_ba,
                     !.linearized_bg = _linearized_bg,
                     !.jacobian = Identity(15),
                     !.covariance = Zeros(15, 15),
                     !.factor = Tuple([i \in 1..15 |-> <<>>])],
           1)

\* repropagate without jacobian.setIdentity()
repropagateKeepJacobian(o, _linearized_ba, _linearized_bg) ==
    Replay([o EXCEPT !.sum_dt = 0,
                     !.acc_0 = o.linearized_acc,
                     !.gyr_0 = o.linearized_gyr,
                     !.delta_p = Zero3,
                     !.delta_q = QuatIdentity,
                     !.delta_v = Zero3,
                     !.linearized_ba = _linearized_ba,
                     !.linearized_bg = _linearized_bg,
                     !.covariance = Zeros(15, 15),
                     !.factor = Tuple([i \in 1..15 |-> <<>>])],
           1)

\* repropagate without delta_v.setZero()
repropagateKeepVelocity(o, _linearized_ba, _linearized_bg) ==
    Replay([o EXCEPT !.sum_dt = 0,
                     !.acc_0 = o.linearized_acc,
                     !.gyr_0 = o.linearized_gyr,
                     !.delta_p = Zero3,
                     !.delta_q = QuatIdentity,
                     !.linearized_ba = _linearized_ba,
                     !.linearized_bg = _linearized_bg,
                     !.jacobian = Identity(15),
                     !.covariance = Zeros(15, 15),
                     !.factor = Tuple([i \in 1..15 |-> <<>>])],
           1)

\* repropagate(_linearized_ba, _linearized_bg)
repropagate(o, _linearized_ba, _linearized_bg) ==
    Replay([o EXCEPT !.sum_dt = 0,
                     !.acc_0 = o.linearized_acc,
                     !.gyr_0 = o.linearized_gyr,
                     !.delta_p = Zero3,
                     !.delta_q = QuatIdentity,
                     !.delta_v = Zero3,
                     !.linearized_ba = _linearized_ba,
                     !.linearized_bg = _linearized_bg,
                     !.jacobian = Identity(15),
                     !.covariance = Zeros(15, 15),
                     !.factor = Tuple([i \in 1..15 |-> <<>>])],
           1)

\* msckf_vio::deltaQ(theta): the small-angle quaternion (1, theta/2), unnormalised
deltaQ(theta) == Canonical([c |-> <<2, theta[1], theta[2], theta[3]>>, n |-> 4])

\* evaluate, the residual blocks in StateOrder; the rotation block R stands for R / sqrt(n),
\* e2 being 2 * (corrected_delta_q.inverse() * (Qi.inverse() * Qj)) with its scalar part dropped
evaluateResiduals(o, Pi, Qi, Vi, Bai, Bgi, Pj, Vj, Baj, Bgj, dba, dbg, e2) ==
    [P |-> VSub(Rotate(QuatInverse(Qi),
                       VSub(VSub(VAdd(VScale((o.sum_dt * o.sum_dt) \div 2, G), Pj), Pi),
                            VScale(o.sum_dt, Vi))),
                VAdd(VAdd(o.delta_p, MatVec(Block(o.jacobian, O_P, O_BA), dba)),
                     MatVec(Block(o.jacobian, O_P, O_BG), dbg))),
     R |-> QuatVec(e2), n |-> e2.n,
     V |-> VSub(Rotate(QuatInverse(Qi), VSub(VAdd(VScale(o.sum_dt, G), Vj), Vi)),
                VAdd(VAdd(o.delta_v, MatVec(Block(o.jacobian, O_V, O_BA), dba)),
                     MatVec(Block(o.jacobian, O_V, O_BG), dbg))),
     BA |-> VSub(Baj, Bai),
     BG |-> VSub(Bgj, Bgi)]

evaluateRotation(o, Pi, Qi, Vi, Bai, Bgi, Pj, Vj, Baj, Bgj, dba, dbg, e) ==
    evaluateResiduals(o, Pi, Qi, Vi, Bai, Bgi, Pj, Vj, Baj, Bgj, dba, dbg,
        Canonical([c |-> <<0, 2 * e.c[2], 2 * e.c[3], 2 * e.c[4]>>, n |-> e.n]))

evaluateCorrected(o, Pi, Qi, Vi, Bai, Bgi, Pj, Qj, Vj, Baj, Bgj, dba, dbg) ==
    evaluateRotation(o, Pi, Qi, Vi, Bai, Bgi, Pj, Vj, Baj, Bgj, dba, dbg,
        QuatMul(QuatInverse(QuatMul(o.delta_q, deltaQ(MatVec(Block(o.jacobian, O_R, O_BG), dbg)))),
                QuatMul(QuatInverse(Qi), Qj)))

\* evaluate(Pi, Qi, Vi, Bai, Bgi, Pj, Qj, Vj, Baj, Bgj)
evaluate(o, Pi, Qi, Vi, Bai, Bgi, Pj, Qj, Vj, Baj, Bgj) ==
    evaluateCorrected(o, Pi, Qi, Vi, Bai, Bgi, Pj, Qj, Vj, Baj, Bgj,
        VSub(Bai, o.linearized_ba), VSub(Bgi, o.linearized_bg))

\* -------------------------------------------------------------------- state
VARIABLES sum_dt, dt, acc_0, gyr_0, acc_1, gyr_1, linearized_acc, linearized_gyr,
          linearized_ba, linearized_bg, jacobian, covariance, noise,
          delta_p, delta_q, delta_v, dt_buf, acc_buf, gyr_buf,
          op, args, ret, calls, atFirst, factor, direct, pre, nonpositive

members == <<sum_dt, dt, acc_0, gyr_0, acc_1, gyr_1, linearized_acc, linearized_gyr,
             linearized_ba, linearized_bg, jacobian, covariance, noise,
             delta_p, delta_q, delta_v, dt_buf, acc_buf, gyr_buf>>

vars == <<members, op, args, ret, calls, atFirst, factor, direct, pre, nonpositive>>

\* the instance as an operation finds it
Self ==
    [sum_dt |-> sum_dt, dt |-> dt, acc_0 |-> acc_0, gyr_0 |-> gyr_0, acc_1 |-> acc_1, gyr_1 |-> gyr_1,
     linearized_acc |-> linearized_acc, linearized_gyr |-> linearized_gyr,
     linearized_ba |-> linearized_ba, linearized_bg |-> linearized_bg,
     jacobian |-> jacobian, covariance |-> covariance, noise |-> noise,
     delta_p |-> delta_p, delta_q |-> delta_q, delta_v |-> delta_v,
     dt_buf |-> dt_buf, acc_buf |-> acc_buf, gyr_buf |-> gyr_buf,
     calls |-> <<>>, atFirst |-> atFirst, factor |-> factor]

\* the instance as an operation leaves it
Store(o) ==
    /\ sum_dt' = o.sum_dt /\ dt' = o.dt
    /\ acc_0' = o.acc_0 /\ gyr_0' = o.gyr_0 /\ acc_1' = o.acc_1 /\ gyr_1' = o.gyr_1
    /\ linearized_acc' = o.linearized_acc /\ linearized_gyr' = o.linearized_gyr
    /\ linearized_ba' = o.linearized_ba /\ linearized_bg' = o.linearized_bg
    /\ jacobian' = o.jacobian /\ covariance' = o.covariance /\ noise' = o.noise
    /\ delta_p' = o.delta_p /\ delta_q' = o.delta_q /\ delta_v' = o.delta_v
    /\ dt_buf' = o.dt_buf /\ acc_buf' = o.acc_buf /\ gyr_buf' = o.gyr_buf
    /\ calls' = o.calls
    /\ atFirst' = IF o.calls = <<>> THEN Members(o) ELSE o.atFirst
    /\ factor' = o.factor

\* the initial samples and biases instances are built with
InitSamples == {<<G, Zero3>>, <<<<2, 0, 0>>, <<0, 0, 2>>>>}

\* dt, acc_1 and gyr_1 are not initialised by the constructor: any value
Indeterminate == {<<0, Zero3, Zero3>>, <<2, <<2, 0, 0>>, <<0, 0, 2>>>>}

\* IntegrationBase(_acc_0, _gyr_0, _linearized_ba, _linearized_bg)
IntegrationBase(_acc_0, _gyr_0, _linearized_ba, _linearized_bg, cfg, u) ==
    [sum_dt |-> 0, dt |-> u[1], acc_0 |-> _acc_0, gyr_0 |-> _gyr_0, acc_1 |-> u[2], gyr_1 |-> u[3],
     linearized_acc |-> _acc_0, linearized_gyr |-> _gyr_0,
     linearized_ba |-> _linearized_ba, linearized_bg |-> _linearized_bg,
     jacobian |-> Identity(15), covariance |-> Zeros(15, 15), noise |-> NoiseMatrix(cfg),
     delta_p |-> Zero3, delta_q |-> QuatIdentity, delta_v |-> Zero3,
     dt_buf |-> <<>>, acc_buf |-> <<>>, gyr_buf |-> <<>>,
     calls |-> <<>>, atFirst |-> <<>>, factor |-> Tuple([i \in 1..15 |-> <<>>])]

\* the instance as the constructor leaves it
Built(o) ==
    /\ sum_dt = o.sum_dt /\ dt = o.dt
    /\ acc_0 = o.acc_0 /\ gyr_0 = o.gyr_0 /\ acc_1 = o.acc_1 /\ gyr_1 = o.gyr_1
    /\ linearized_acc = o.linearized_acc /\ linearized_gyr = o.linearized_gyr
    /\ linearized_ba = o.linearized_ba /\ linearized_bg = o.linearized_bg
    /\ jacobian = o.jacobian /\ covariance = o.covariance /\ noise = o.noise
    /\ delta_p = o.delta_p /\ delta_q = o.delta_q /\ delta_v = o.delta_v
    /\ dt_buf = o.dt_buf /\ acc_buf = o.acc_buf /\ gyr_buf = o.gyr_buf
    /\ calls = o.calls /\ atFirst = Members(o) /\ factor = o.factor

Init ==
    \E s \in InitSamples, b \in Biases, cfg \in NoiseConfigs, u \in Indeterminate :
        /\ Built(IntegrationBase(s[1], s[2], b[1], b[2], cfg, u))
        /\ op = "IntegrationBase" /\ args = <<s[1], s[2], b[1], b[2]>> /\ ret = <<>> /\ direct = 0
        /\ pre = [linearized_ba |-> b[1], linearized_bg |-> b[2], direct |-> 0]
        /\ nonpositive = FALSE

\* ----------------------------------------------------------------- operations
\* the endpoint states evaluate is called with: Pi, Qi, Vi, Bai, Bgi, Pj, Qj, Vj, Baj, Bgj
EvalArgs ==
    {<<Zero3, QuatIdentity, Zero3, Zero3, Zero3, Zero3, QuatIdentity, Zero3, Zero3, Zero3>>,
     <<<<2, 0, 0>>, Normalize(Quaterniond(1, 0, 0, 1)), <<0, 2, 0>>, Zero3, <<1, 0, 0>>,
       <<0, 2, 0>>, Normalize(Quaterniond(1, 1, 0, 0)), Zero3, <<2, 0, 0>>, Zero3>>}

\* history: the biases in use and the count of propagate calls made from outside since
\* the last reset, as the operation finds them (pre); whether push_back or propagate has
\* been passed a dt <= 0 since the construction (nonpositive)
AtCall == [linearized_ba |-> linearized_ba, linearized_bg |-> linearized_bg, direct |-> direct]

\* the replay of the buffer under gyroscope bias bg stays where the arithmetic is exact
ReplayInDomain(bg) ==
    \A i \in 1..Len(dt_buf) :
        InDomain(dt_buf[i], IF i = 1 THEN linearized_gyr ELSE gyr_buf[i - 1], gyr_buf[i], bg)

PushBack ==
    \E s \in Samples :
        /\ Len(dt_buf) < MaxBuf
        /\ InDomain(s[1], gyr_0, s[3], linearized_bg)
        /\ Store(push_back(Self, s[1], s[2], s[3]))
        /\ op' = "push_back" /\ args' = s /\ ret' = <<>>
        /\ direct' = direct /\ pre' = AtCall
        /\ nonpositive' = (nonpositive \/ s[1] <= 0)

Propagate ==
    \E s \in Samples :
        /\ direct < MaxDirect
        /\ InDomain(s[1], gyr_0, s[3], linearized_bg)
        /\ Store(propagate(Self, s[1], s[2], s[3]))
        /\ op' = "propagate" /\ args' = s /\ ret' = <<>>
        /\ direct' = direct + 1 /\ pre' = AtCall
        /\ nonpositive' = (nonpositive \/ s[1] <= 0)

Repropagate ==
    \E b \in Biases :
        /\ ReplayInDomain(b[2])
        /\ Store(repropagate(Self, b[1], b[2]))
        /\ op' = "repropagate" /\ args' = b /\ ret' = <<>>
        /\ direct' = 0 /\ pre' = AtCall
        /\ UNCHANGED nonpositive

\* evaluate keeping the accelerometer bias Bai it was called with as the linearisation point
EvaluateRelinearize ==
    \E a \in EvalArgs :
        /\ ret' = evaluate(Self, a[1], a[2], a[3], a[4], a[5], a[6], a[7], a[8], a[9], a[10])
        /\ op' = "evaluate" /\ args' = a
        /\ calls' = <<>> /\ atFirst' = Members(Self)
        /\ pre' = AtCall
        /\ linearized_ba' = a[4]
        /\ UNCHANGED <<sum_dt, dt, acc_0, gyr_0, acc_1, gyr_1, linearized_acc, linearized_gyr,
                       linearized_bg, jacobian, covariance, noise, delta_p, delta_q, delta_v,
                       dt_buf, acc_buf, gyr_buf, factor, direct, nonpositive>>

Evaluate ==
    \E a \in EvalArgs :
        /\ ret' = evaluate(Self, a[1], a[2], a[3], a[4], a[5], a[6], a[7], a[8], a[9], a[10])
        /\ op' = "evaluate" /\ args' = a
        /\ calls' = <<>> /\ atFirst' = Members(Self)
        /\ pre' = AtCall
        /\ UNCHANGED <<members, factor, direct, nonpositive>>

Next == PushBack \/ Propagate \/ Repropagate \/ Evaluate

Spec == Init /\ [][Next]_vars

\* ------------------------------------------------------------------- claims
RECURSIVE SumSeq(_, _)
SumSeq(q, k) == IF k = 0 THEN 0 ELSE q[k] + SumSeq(q, k - 1)

integrates == {"push_back", "propagate"}

deltas == <<delta_p, delta_q, delta_v, jacobian, covariance, sum_dt>>

\* C1 as claimed: repropagate called with the biases the instance already uses leaves
\* delta_p, delta_q, delta_v, jacobian, covariance and sum_dt as they were, whatever
\* samples the instance has been fed (samples with dt > 0, the ones C7 has accepted).
C1_AnySamples ==
    [][(op' = "repropagate" /\ args' = <<linearized_ba, linearized_bg>> /\ ~nonpositive)
        => deltas' = deltas]_vars

\* C1 as amended: repropagate called with the biases the instance already uses leaves
\* delta_p, delta_q, delta_v, jacobian, covariance and sum_dt as they were, when every
\* sample since the construction or the last repropagate was fed through push_back.
C1_Idempotent ==
    [][(op' = "repropagate" /\ args' = <<linearized_ba, linearized_bg>> /\ direct = 0)
        => deltas' = deltas]_vars

C1_Witness ==
    /\ op = "repropagate" /\ pre.direct = 0 /\ ~nonpositive
    /\ args = <<pre.linearized_ba, pre.linearized_bg>>
    /\ Len(dt_buf) = 2 /\ delta_q # QuatIdentity /\ delta_v # Zero3

\* C2: evaluate assigns no member (sum_dt, the deltas, the biases, jacobian, covariance,
\* noise, acc_0/gyr_0, acc_1/gyr_1, the three buffers), and two evaluate calls in a row
\* with the same arguments return the same residual.
C2_EvaluatePure ==
    [][/\ op' = "evaluate" =>
            UNCHANGED <<sum_dt, delta_p, delta_q, delta_v, linearized_ba, linearized_bg,
                        jacobian, covariance, noise, acc_0, gyr_0, acc_1, gyr_1,
                        dt_buf, acc_buf, gyr_buf>>
       /\ (op = "evaluate" /\ op' = "evaluate" /\ args' = args) => ret' = ret]_vars

C2_Witness ==
    /\ op = "evaluate" /\ Len(dt_buf) = 2 /\ jacobian # Identity(15)
    /\ ret.P # Zero3 /\ ret.R # Zero3 /\ linearized_ba # args[4]

\* the values the constructor and repropagate give the integration state
ResetValues(o, ba, bg) ==
    /\ o.sum_dt = 0 /\ o.delta_p = Zero3 /\ o.delta_v = Zero3 /\ o.delta_q = QuatIdentity
    /\ o.jacobian = Identity(15) /\ o.covariance = Zeros(15, 15)
    /\ o.linearized_ba = ba /\ o.linearized_bg = bg

\* the matrix F of the propagate step that integrates sample s from the current state
StepF(s) ==
    midPointIntegration(Self, s[1], acc_0, gyr_0, s[2], s[3], delta_p, delta_q, delta_v,
                        linearized_ba, linearized_bg, TRUE).F

\* C3: when repropagate(ba', bg') makes its first propagate call (or returns, the buffer
\* being empty) sum_dt is 0, delta_p and delta_v are zero, delta_q and jacobian are the
\* identity, covariance is zero and the biases are (ba', bg'); its propagate calls are the
\* buffered samples, one call each, in buffer order; and no other operation resets
\* jacobian or covariance: evaluate leaves both as they are, push_back and propagate take
\* jacobian to F * jacobian for the F of their step and never take covariance to zero
\* from another value.
C3_ResetThenReplay ==
    /\ [](op = "repropagate" =>
            /\ ResetValues(atFirst, args[1], args[2])
            /\ Len(calls) = Len(dt_buf)
            /\ \A i \in 1..Len(dt_buf) : calls[i] = <<dt_buf[i], acc_buf[i], gyr_buf[i]>>)
    /\ [][/\ op' = "evaluate" => UNCHANGED <<jacobian, covariance>>
          /\ \A s \in Samples : (op' \in integrates /\ args' = s) =>
               /\ jacobian' = MatMul(StepF(s), jacobian)
               /\ covariance' = Zeros(15, 15) => covariance = Zeros(15, 15)]_vars

C3_Witness ==
    /\ op = "repropagate" /\ Len(dt_buf) = 2 /\ dt_buf[1] # dt_buf[2]
    /\ args # <<pre.linearized_ba, pre.linearized_bg>>
    /\ jacobian # Identity(15) /\ covariance # Zeros(15, 15)

\* C4: push_back appends its sample at the end of dt_buf, acc_buf and gyr_buf and makes one
\* propagate call with it; no other operation changes a buffer; the three buffers have the
\* same length.
C4_AppendOnly ==
    /\ [](Len(dt_buf) = Len(acc_buf) /\ Len(acc_buf) = Len(gyr_buf))
    /\ [][/\ op' = "push_back" =>
               /\ dt_buf' = Append(dt_buf, args'[1])
               /\ acc_buf' = Append(acc_buf, args'[2])
               /\ gyr_buf' = Append(gyr_buf, args'[3])
               /\ calls' = <<args'>>
          /\ op' # "push_back" => UNCHANGED <<dt_buf, acc_buf, gyr_buf>>]_vars

C4_Witness ==
    /\ op = "push_back" /\ Len(dt_buf) = 2
    /\ <<dt_buf[1], acc_buf[1], gyr_buf[1]>> # <<dt_buf[2], acc_buf[2], gyr_buf[2]>>
    /\ pre.direct = 1

\* C5 as claimed: sum_dt is never negative and no operation makes it smaller (as long as
\* every dt passed was positive, the others being C7's).
C5_Monotone ==
    /\ [](~nonpositive => sum_dt >= 0)
    /\ [][~nonpositive' => sum_dt' >= sum_dt]_vars

\* C5 as amended: push_back and propagate add their dt to sum_dt, evaluate leaves it as it
\* is, and repropagate sets it to the sum of the buffered dt.
C5_Accumulates ==
    [][/\ op' \in integrates => sum_dt' = sum_dt + args'[1]
       /\ op' = "evaluate" => sum_dt' = sum_dt
       /\ op' = "repropagate" => sum_dt' = SumSeq(dt_buf', Len(dt_buf'))]_vars

C5_Witness ==
    /\ op = "repropagate" /\ pre.direct = 1 /\ Len(dt_buf) = 2 /\ sum_dt = 4 /\ ~nonpositive

\* every sample the integration state rests on, the initial one included, has a zero
\* bias-corrected angular rate and a bias-corrected specific force equal to G
ZeroMotion ==
    /\ direct = 0
    /\ VSub(linearized_acc, linearized_ba) = G /\ linearized_gyr = linearized_bg
    /\ \A i \in 1..Len(dt_buf) : VSub(acc_buf[i], linearized_ba) = G /\ gyr_buf[i] = linearized_bg

\* the endpoint states of a body at rest, with the biases of a zero linearisation point
AtRest == <<Zero3, QuatIdentity, Zero3, Zero3, Zero3, Zero3, QuatIdentity, Zero3, Zero3, Zero3>>

\* C6 as claimed: under zero motion (and steps of dt > 0) delta_p and delta_v are zero and
\* delta_q is the identity.
C6_StaysZero ==
    (ZeroMotion /\ ~nonpositive) => (delta_p = Zero3 /\ delta_v = Zero3 /\ delta_q = QuatIdentity)

\* C6 as amended: under zero motion delta_q is the identity, delta_v is G * sum_dt and
\* delta_p is G * sum_dt^2 / 2: gravity is taken out in evaluate, whose position and
\* velocity residuals are zero when it is called with endpoint states at rest.
C6_GravityAccumulates ==
    ZeroMotion =>
        /\ delta_q = QuatIdentity
        /\ delta_v = VScale(sum_dt, G)
        /\ VScale(2, delta_p) = VScale(sum_dt * sum_dt, G)
        /\ (op = "evaluate" /\ args = AtRest /\ linearized_ba = Zero3 /\ linearized_bg = Zero3)
            => (ret.P = Zero3 /\ ret.V = Zero3)

C6_Witness ==
    /\ ZeroMotion /\ ~nonpositive /\ Len(dt_buf) = 2 /\ sum_dt = 4
    /\ op = "evaluate" /\ args = AtRest /\ linearized_ba = Zero3 /\ linearized_bg = Zero3

\* C7: push_back and propagate called with dt <= 0 report a failure and leave the buffers,
\* sum_dt, delta_p, delta_q, delta_v, jacobian and covariance as they were.
C7_Rejected ==
    [][(op' \in integrates /\ args'[1] <= 0) =>
          /\ ret' # <<>>
          /\ UNCHANGED <<dt_buf, acc_buf, gyr_buf, sum_dt, delta_p, delta_q, delta_v,
                         jacobian, covariance>>]_vars

\* W * diag(noise, ..., noise) * W^T, W being 15 rows of a multiple of 18 columns
Gram(W) ==
    MatMulT(Tuple([i \in 1..Len(W) |-> Tuple([m \in 1..Len(W[i]) |->
                W[i][m] * noise[((m - 1) % 18) + 1][((m - 1) % 18) + 1]])]),
            W)

\* C8: covariance is symmetric and positive semidefinite: noise is diagonal with no
\* negative entry, and covariance is W * diag(noise, ..., noise) * W^T for the matrix W
\* whose columns are those of V of each step carried through F of the later steps, so
\* that x^T covariance x is a sum of squares weighted by the noise variances.
C8_SymmetricPSD ==
    /\ \A i, j \in 1..18 : noise[i][j] >= 0 /\ (i # j => noise[i][j] = 0)
    /\ \A i, j \in 1..15 : covariance[i][j] = covariance[j][i]
    /\ \A i \in 1..15 : covariance[i][i] >= 0
    /\ covariance = Gram(factor)

C8_Witness ==
    /\ op = "push_back" /\ Len(dt_buf) = 2 /\ pre.direct = 1
    /\ covariance[1][1] > 0 /\ covariance[1][7] # 0 /\ covariance[4][4] > 0
    /\ delta_q # QuatIdentity

\* Quaterniond(1, w dt / 2) for the mean bias-corrected rate w of the samples gyr_0, gyr_1
Increment(_gyr_0, _gyr_1, bg, _dt) ==
    Canonical([c |-> <<2,
                       ((_gyr_0[1] + _gyr_1[1]) \div 2 - bg[1]) * _dt,
                       ((_gyr_0[2] + _gyr_1[2]) \div 2 - bg[2]) * _dt,
                       ((_gyr_0[3] + _gyr_1[3]) \div 2 - bg[3]) * _dt>>,
               n |-> 4])

\* C9 as claimed: a propagate step (of dt > 0, after steps of dt > 0) takes delta_q to
\* normalize(increment * delta_q).
C9_IncrementOnLeft ==
    [][(op' \in integrates /\ ~nonpositive') =>
          delta_q' = Normalize(QuatMul(Increment(gyr_0, args'[3], linearized_bg, args'[1]), delta_q))]_vars

\* C9 as amended: a propagate step takes delta_q to normalize(delta_q * increment), the
\* increment on the right.
C9_IncrementOnRight ==
    [][op' \in integrates =>
          delta_q' = Normalize(QuatMul(delta_q, Increment(gyr_0, args'[3], linearized_bg, args'[1])))]_vars

C9_Witness ==
    /\ op \in integrates /\ ~nonpositive
    /\ atFirst.delta_q = Normalize(Quaterniond(1, 0, 0, 1))
    /\ delta_q = QuatMul(Normalize(Quaterniond(1, 0, 0, 1)), Normalize(Quaterniond(1, 1, 0, 0)))
    /\ delta_q # QuatMul(Normalize(Quaterniond(1, 1, 0, 0)), Normalize(Quaterniond(1, 0, 0, 1)))

\* a new instance built with the initial sample and the biases (ba, bg) and fed the
\* buffered samples from index i on through push_back
RECURSIVE PushAll(_, _)
PushAll(o, i) ==
    IF i > Len(dt_buf) THEN o
    ELSE PushAll(push_back(o, dt_buf[i], acc_buf[i], gyr_buf[i]), i + 1)

Rebuilt(ba, bg) ==
    PushAll(IntegrationBase(linearized_acc, linearized_gyr, ba, bg,
                            CHOOSE cfg \in NoiseConfigs : NoiseMatrix(cfg) = noise,
                            <<dt, acc_1, gyr_1>>), 1)

SameIntegration(o) ==
    /\ sum_dt = o.sum_dt /\ delta_p = o.delta_p /\ delta_q = o.delta_q /\ delta_v = o.delta_v
    /\ jacobian = o.jacobian /\ covariance = o.covariance
    /\ acc_0 = o.acc_0 /\ gyr_0 = o.gyr_0

\* C10: what repropagate(ba', bg') leaves in sum_dt, delta_p, delta_q, delta_v, jacobian,
\* covariance, acc_0 and gyr_0 is what a new instance built with the same initial sample
\* and (ba', bg') holds after the buffered samples were pushed into it, whatever happened
\* before; sum_dt is the sum of the buffered dt and acc_0/gyr_0 are the last buffered
\* sample, or the initial sample when the buffer is empty.
C10_HistoryFree ==
    op = "repropagate" =>
        /\ SameIntegration(Rebuilt(args[1], args[2]))
        /\ sum_dt = SumSeq(dt_buf, Len(dt_buf))
        /\ acc_0 = IF dt_buf = <<>> THEN linearized_acc ELSE acc_buf[Len(acc_buf)]
        /\ gyr_0 = IF dt_buf = <<>> THEN linearized_gyr ELSE gyr_buf[Len(gyr_buf)]

C10_Witness ==
    /\ op = "repropagate" /\ pre.direct = 1 /\ Len(dt_buf) = 2 /\ ~nonpositive
    /\ args # <<pre.linearized_ba, pre.linearized_bg>>
    /\ delta_v # Zero3

====
